---------------------------- MODULE Spec2Model ----------------------------
(***************************************************************************)
(* A model of pgn_time_score.py: the clock-string parser, the move-time    *)
(* extractor (process_game), the statistics engine (compute_stats,         *)
(* analyze_segments) and the per-move table (detailed_move_stats_table).   *)
(*                                                                         *)
(* Numbers.  Clock values and move times are integers counted in tenths of *)
(* a second (the clock strings of the model carry at most one fractional   *)
(* digit, so the values are exact).  The statistics are exact rationals;   *)
(* the rounding and the range of Python's floats are not modelled.         *)
(* Strings are sequences of one-character strings.                         *)
(***************************************************************************)
EXTENDS Integers, Sequences, FiniteSets, TLC

VARIABLES
    pc,             \* position of the program
    initial_time,   \* process_game: initial_time (tenths of a second)
    turn,           \* board.turn: the side to move, "W" or "B"
    white_prev,     \* process_game: white_prev
    black_prev,     \* process_game: black_prev
    moves_info,     \* process_game: moves_info
    readings,       \* history: clock_seconds of every ply walked so far
    clock_time_str, \* process_game: clock_time_str of the last ply (or the
                    \* string handed to parse_time_str)
    clock_seconds,  \* process_game: clock_seconds of the last ply
    i,              \* process_game: i of the grouping loop
    move_number,    \* process_game: move_number
    output_lines,   \* process_game: output_lines
    report,         \* main: the statistics, segment comments and tables
    mmss            \* the string format_mmss returned

vars == <<pc, initial_time, turn, white_prev, black_prev, moves_info, readings,
          clock_time_str, clock_seconds, i, move_number, output_lines, report,
          mmss>>

---------------------------------------------------------------------------
(* Bounds of the model *)

\* longest mainline walked by process_game
MaxPlies == 5
\* longest move sequence handed to the statistics functions
MaxMoves == 3
\* largest hours field of a generated clock string
MaxHours == 1

---------------------------------------------------------------------------
(* Strings *)

Digits == <<"0", "1", "2", "3", "4", "5", "6", "7", "8", "9">>

DigitSet == {Digits[k] : k \in 1..10}

DigitVal(c) == (CHOOSE k \in 1..10 : Digits[k] = c) - 1

IsDigits(s) == Len(s) > 0 /\ \A k \in 1..Len(s) : s[k] \in DigitSet

RECURSIVE NatVal(_)
NatVal(s) ==
    IF s = <<>> THEN 0
    ELSE NatVal(SubSeq(s, 1, Len(s) - 1)) * 10 + DigitVal(s[Len(s)])

RECURSIVE DecStr(_)
DecStr(n) ==
    IF n < 10 THEN <<Digits[n + 1]>>
    ELSE DecStr(n \div 10) \o <<Digits[(n % 10) + 1]>>

\* Python's format spec 02d: at least two characters, zero padded, the sign
\* counted in the width.
Fmt02d(n) ==
    IF n < 0 THEN <<"-">> \o DecStr(-n)
    ELSE IF n < 10 THEN <<"0">> \o DecStr(n)
    ELSE DecStr(n)

\* index of the first occurrence of c in s, 0 if none
RECURSIVE IndexFrom(_, _, _)
IndexFrom(s, c, k) ==
    IF k > Len(s) THEN 0
    ELSE IF s[k] = c THEN k
    ELSE IndexFrom(s, c, k + 1)

\* str.split(sep) for a one-character separator
RECURSIVE Split(_, _)
Split(s, sep) ==
    LET k == IndexFrom(s, sep, 1)
    IN  IF k = 0 THEN <<s>>
        ELSE <<SubSeq(s, 1, k - 1)>> \o Split(SubSeq(s, k + 1, Len(s)), sep)

\* The outcome of a conversion: a value, or the exception raised.
Value(v) == [exc |-> "", val |-> v]

ValueError == [exc |-> "ValueError", val |-> 0]

Raised(x) == x.exc # ""

\* int(s): s must be a run of decimal digits
IntOf(s) == IF IsDigits(s) THEN Value(NatVal(s)) ELSE ValueError

\* float(s), in tenths: digits, optionally followed by "." and at most one
\* digit (the strings of the model carry no longer fraction)
FloatOf(s) ==
    LET p == Split(s, ".")
    IN  IF Len(p) = 1 /\ IsDigits(p[1]) THEN Value(NatVal(p[1]) * 10)
        ELSE IF Len(p) = 2 /\ IsDigits(p[1]) /\ p[2] = <<>>
            THEN Value(NatVal(p[1]) * 10)
        ELSE IF Len(p) = 2 /\ IsDigits(p[1]) /\ IsDigits(p[2]) /\ Len(p[2]) = 1
            THEN Value(NatVal(p[1]) * 10 + NatVal(p[2]))
        ELSE ValueError

---------------------------------------------------------------------------
(* Clock strings *)

format_mmss_rounding(seconds) ==
    LET minutes == seconds \div 600
        secs == ((seconds % 600) + 5) \div 10
    IN  Fmt02d(minutes) \o <<":">> \o Fmt02d(secs)

format_mmss(seconds) ==
    LET minutes == seconds \div 600
        secs == (seconds % 600) \div 10
    IN  Fmt02d(minutes) \o <<":">> \o Fmt02d(secs)

parse_time_str(time_str) ==
    LET parts == Split(time_str, ":")
    IN  IF Len(parts) = 3 THEN
            LET hours == IntOf(parts[1])
                minutes == IntOf(parts[2])
                seconds == FloatOf(parts[3])
            IN  IF Raised(hours) \/ Raised(minutes) \/ Raised(seconds)
                THEN ValueError
                ELSE Value(hours.val * 36000 + minutes.val * 600 + seconds.val)
        ELSE IF Len(parts) = 2 THEN
            LET minutes == IntOf(parts[1])
                seconds == FloatOf(parts[2])
            IN  IF Raised(minutes) \/ Raised(seconds)
                THEN ValueError
                ELSE Value(minutes.val * 600 + seconds.val)
        ELSE FloatOf(time_str)

\* A clock string H:MM:SS.f (h = -1: no hours field; f = -1: no fraction)
ClockString(h, m, s, f) ==
    (IF h < 0 THEN <<>> ELSE DecStr(h) \o <<":">>)
    \o Fmt02d(m) \o <<":">> \o Fmt02d(s)
    \o (IF f < 0 THEN <<>> ELSE <<".">> \o DecStr(f))

\* the valid H:MM:SS.s and MM:SS.s strings of the model
ValidClockStrings ==
    {ClockString(h, m, s, f) :
        h \in -1..MaxHours, m \in {0, 5, 59}, s \in {0, 30, 59}, f \in {-1, 0, 9}}

\* the minute:second portion of a clock string, the fraction cut off
MinSecPortion(s) ==
    LET parts == Split(s, ":")
        n == Len(parts)
    IN  parts[n - 1] \o <<":">> \o Split(parts[n], ".")[1]

HoursField(s) ==
    LET parts == Split(s, ":")
    IN  IF Len(parts) = 3 THEN NatVal(parts[1]) ELSE 0

MinutesField(s) ==
    LET parts == Split(s, ":")
    IN  NatVal(parts[Len(parts) - 1])

---------------------------------------------------------------------------
(* Exact rational arithmetic for the float computations of the statistics *)

RECURSIVE GCD(_, _)
GCD(a, b) == IF b = 0 THEN a ELSE GCD(b, a % b)

Abs(x) == IF x < 0 THEN -x ELSE x

\* the rational n/d (d # 0) in lowest terms with a positive denominator
Q(n, d) ==
    LET g == GCD(Abs(n), Abs(d))
        sgn == IF d < 0 THEN -1 ELSE 1
    IN  [exc |-> "", n |-> sgn * (n \div g), d |-> sgn * (d \div g)]

RInt(k) == [exc |-> "", n |-> k, d |-> 1]

Zero == RInt(0)

ZeroDivisionError == [exc |-> "ZeroDivisionError", n |-> 0, d |-> 1]

MathDomainError == [exc |-> "ValueError", n |-> 0, d |-> 1]

RIsZero(a) == a.n = 0

RAdd(a, b) ==
    IF Raised(a) THEN a ELSE IF Raised(b) THEN b
    ELSE Q(a.n * b.d + b.n * a.d, a.d * b.d)

RSub(a, b) ==
    IF Raised(a) THEN a ELSE IF Raised(b) THEN b
    ELSE Q(a.n * b.d - b.n * a.d, a.d * b.d)

RMul(a, b) ==
    IF Raised(a) THEN a ELSE IF Raised(b) THEN b
    ELSE Q(a.n * b.n, a.d * b.d)

\* a / b: raises ZeroDivisionError when b is zero
RDiv(a, b) ==
    IF Raised(a) THEN a ELSE IF Raised(b) THEN b
    ELSE IF b.n = 0 THEN ZeroDivisionError
    ELSE Q(a.n * b.d, a.d * b.n)

RLt(a, b) == a.n * b.d < b.n * a.d

RECURSIVE ISqrtIn(_, _, _)
ISqrtIn(x, lo, hi) ==
    IF lo >= hi THEN lo
    ELSE LET mid == (lo + hi + 1) \div 2
         IN  IF mid * mid <= x THEN ISqrtIn(x, mid, hi)
             ELSE ISqrtIn(x, lo, mid - 1)

\* math.sqrt: raises on a negative argument; the root of n/d is taken as
\* floor(sqrt(n*d))/d, which is zero exactly when n/d is zero
Sqrt(a) ==
    IF Raised(a) THEN a
    ELSE IF a.n < 0 THEN MathDomainError
    ELSE LET x == a.n * a.d
         IN  Q(ISqrtIn(x, 0, IF x < 46340 THEN x ELSE 46340), a.d)

---------------------------------------------------------------------------
(* Statistics engine *)

\* sum(m["time_used"] for m in moves)
RECURSIVE SumTimes(_)
SumTimes(moves) ==
    IF moves = <<>> THEN 0
    ELSE moves[1].time_used + SumTimes(Tail(moves))

\* sum((m["time_used"] - avg_time) ** 2 for m in moves)
RECURSIVE SumSquares(_, _)
SumSquares(moves, avg_time) ==
    IF moves = <<>> THEN Zero
    ELSE LET dev == RSub(RInt(moves[1].time_used), avg_time)
         IN  RAdd(RMul(dev, dev), SumSquares(Tail(moves), avg_time))

consistency_unguarded(std_dev, avg_time) ==
    RMul(RDiv(std_dev, avg_time), RInt(100))

consistency_of(std_dev, avg_time) ==
    IF ~RIsZero(avg_time) THEN RMul(RDiv(std_dev, avg_time), RInt(100))
    ELSE Zero

recommended_avg_per_30(initial_time_) == RDiv(RInt(initial_time_), RInt(30))

recommended_avg_of(initial_time_) == RDiv(RInt(initial_time_), RInt(40))

efficiency_ratio_of(avg_time, recommended_avg) ==
    IF ~RIsZero(recommended_avg)
    THEN RMul(RDiv(avg_time, recommended_avg), RInt(100))
    ELSE Zero

compute_stats(moves, initial_time_) ==
    IF moves = <<>> THEN
        [exc |-> "", count |-> 0, total_time |-> Zero, avg_time |-> Zero,
         std_dev |-> Zero, consistency |-> Zero, recommended_avg |-> Zero,
         efficiency_ratio |-> Zero]
    ELSE
        LET count == Len(moves)
            total_time == RInt(SumTimes(moves))
            avg_time == RDiv(total_time, RInt(count))
            variance == RDiv(SumSquares(moves, avg_time), RInt(count))
            std_dev == Sqrt(variance)
            consistency == consistency_of(std_dev, avg_time)
            recommended_avg == recommended_avg_of(initial_time_)
            efficiency_ratio == efficiency_ratio_of(avg_time, recommended_avg)
            raised == {x \in {avg_time, variance, std_dev, consistency,
                              recommended_avg, efficiency_ratio} : Raised(x)}
        IN  IF raised # {} THEN [exc |-> (CHOOSE x \in raised : TRUE).exc]
            ELSE [exc |-> "", count |-> count, total_time |-> total_time,
                  avg_time |-> avg_time, std_dev |-> std_dev,
                  consistency |-> consistency,
                  recommended_avg |-> recommended_avg,
                  efficiency_ratio |-> efficiency_ratio]

InsufficientEarly == "Insufficient data for early game analysis."

InsufficientLater == "Insufficient data for later game analysis."

segment_split_ceil(moves) ==
    LET half == (Len(moves) + 1) \div 2
    IN  [first_half |-> SubSeq(moves, 1, half),
         second_half |-> SubSeq(moves, half + 1, Len(moves))]

segment_split(moves) ==
    LET half == Len(moves) \div 2
    IN  [first_half |-> SubSeq(moves, 1, half),
         second_half |-> SubSeq(moves, half + 1, Len(moves))]

\* sum(m["time_used"] for m in half) / len(half)
Mean(moves) == RDiv(RInt(SumTimes(moves)), RInt(Len(moves)))

analyze_segments(moves, recommended_avg) ==
    IF Len(moves) < 2 THEN
        [exc |-> "", early |-> [text |-> InsufficientEarly],
         later |-> [text |-> InsufficientLater]]
    ELSE
        LET halves == segment_split(moves)
            avg_first == Mean(halves.first_half)
            avg_second == Mean(halves.second_half)
        IN  IF Raised(avg_first) THEN [exc |-> avg_first.exc]
            ELSE IF Raised(avg_second) THEN [exc |-> avg_second.exc]
            ELSE
            [exc |-> "",
             early |->
                [avg |-> avg_first,
                 text |->
                    IF RLt(avg_first, RMul(recommended_avg, Q(9, 10)))
                    THEN " Moves were notably faster than recommended."
                    ELSE IF RLt(RMul(recommended_avg, Q(11, 10)), avg_first)
                    THEN " Moves were notably slower than recommended."
                    ELSE " Early game move times were near optimal."],
             later |->
                [avg |-> avg_second,
                 text |->
                    IF RLt(avg_second, RMul(avg_first, Q(9, 10)))
                    THEN " Moves became significantly faster in the later game."
                    ELSE IF RLt(RMul(avg_first, Q(11, 10)), avg_second)
                    THEN " Moves became significantly slower in the later game."
                    ELSE " Later game move times remained consistent with the early game."]]

efficiency_comment(eff_ratio) ==
    IF RLt(eff_ratio, RInt(90)) THEN "playing too fast"
    ELSE IF RLt(RInt(110), eff_ratio) THEN "playing too slow"
    ELSE "using time optimally"

---------------------------------------------------------------------------
(* Detailed per-move table *)

remark_inclusive(time_used, recommended_avg) ==
    LET rec_delta ==
            IF ~RIsZero(recommended_avg)
            THEN RMul(RDiv(RSub(RInt(time_used), recommended_avg),
                           recommended_avg), RInt(100))
            ELSE Zero
    IN  IF ~RLt(RInt(-20), rec_delta) THEN "fast"
        ELSE IF ~RLt(rec_delta, RInt(20)) THEN "slow"
        ELSE "optimal"

remark_of(time_used, recommended_avg) ==
    LET rec_delta ==
            IF ~RIsZero(recommended_avg)
            THEN RMul(RDiv(RSub(RInt(time_used), recommended_avg),
                           recommended_avg), RInt(100))
            ELSE Zero
    IN  IF RLt(rec_delta, RInt(-20)) THEN "fast"
        ELSE IF RLt(RInt(20), rec_delta) THEN "slow"
        ELSE "optimal"

table_row_remain_last(moves, k, overall_avg, recommended_avg, initial_time_) ==
    LET m == moves[k]
        cum == SumTimes(SubSeq(moves, 1, k))
        remain == initial_time_ - m.time_used
    IN  [no |-> k, move |-> m.move, time_used |-> m.time_used,
         cum |-> cum, remain |-> remain,
         formatted_cum |-> format_mmss(cum),
         formatted_remain |-> format_mmss(remain),
         avg_so_far |-> RDiv(RInt(cum), RInt(k)),
         delta |-> Zero,
         remark |-> remark_of(m.time_used, recommended_avg)]

\* one pass of the loop of detailed_move_stats_table, for the k-th move
table_row(moves, k, overall_avg, recommended_avg, initial_time_) ==
    LET m == moves[k]
        cum == SumTimes(SubSeq(moves, 1, k))
        avg_so_far == RDiv(RInt(cum), RInt(k))
        remain == initial_time_ - cum
        delta ==
            IF ~RIsZero(overall_avg)
            THEN RMul(RDiv(RSub(RInt(m.time_used), overall_avg), overall_avg),
                      RInt(100))
            ELSE Zero
    IN  [no |-> k, move |-> m.move, time_used |-> m.time_used,
         cum |-> cum, remain |-> remain,
         formatted_cum |-> format_mmss(cum),
         formatted_remain |-> format_mmss(remain),
         avg_so_far |-> avg_so_far, delta |-> delta,
         remark |-> remark_of(m.time_used, recommended_avg)]

\* the lines of the table: the header, the rule under it, one row per move
detailed_move_stats_table(moves, overall_avg, recommended_avg, initial_time_) ==
    <<[text |-> "header"], [text |-> "rule"]>> \o
    [k \in 1..Len(moves) |->
        table_row(moves, k, overall_avg, recommended_avg, initial_time_)]

\* the k-th row of a table (after its two heading lines)
Row(table, k) == table[k + 2]

NumRows(table) == Len(table) - 2

---------------------------------------------------------------------------
(* Move-time extractor: inputs *)

None == [some |-> FALSE, val |-> 0]

Some(v) == [some |-> TRUE, val |-> v]

IsSpace(c) == c = " "

\* the end of the run of characters from k on that satisfy / do not satisfy
\* IsSpace: the index of the first character after the run
RECURSIVE SkipSpaces(_, _)
SkipSpaces(s, k) ==
    IF k <= Len(s) /\ IsSpace(s[k]) THEN SkipSpaces(s, k + 1) ELSE k

RECURSIVE SkipNonSpaces(_, _)
SkipNonSpaces(s, k) ==
    IF k <= Len(s) /\ ~IsSpace(s[k]) THEN SkipNonSpaces(s, k + 1) ELSE k

\* the largest index in lo..hi holding "]", 0 if none
RECURSIVE LastBracket(_, _, _)
LastBracket(s, lo, hi) ==
    IF hi < lo THEN 0
    ELSE IF s[hi] = "]" THEN hi
    ELSE LastBracket(s, lo, hi - 1)

ClkOpen == <<"[", "%", "c", "l", "k">>

\* the regular expression \[%clk\s+(\S+)\] tried at position k of s:
\* <<group 1>> on a match, <<>> otherwise
ClockMatchAt(s, k) ==
    IF k + 4 > Len(s) \/ SubSeq(s, k, k + 4) # ClkOpen THEN <<>>
    ELSE LET a == SkipSpaces(s, k + 5)
             b == SkipNonSpaces(s, a)
             r == LastBracket(s, a + 1, b - 1)
         IN  IF a = k + 5 \/ r = 0 THEN <<>>
             ELSE <<SubSeq(s, a, r - 1)>>

\* clock_pattern.search(comment): the first position that matches
RECURSIVE ClockSearchFrom(_, _)
ClockSearchFrom(s, k) ==
    IF k > Len(s) THEN <<>>
    ELSE IF ClockMatchAt(s, k) # <<>> THEN ClockMatchAt(s, k)
    ELSE ClockSearchFrom(s, k + 1)

clock_pattern_search(comment) == ClockSearchFrom(comment, 1)

\* the annotation "[%clk <token>]"
ClkTag(token) == ClkOpen \o <<" ">> \o token \o <<"]">>

EvalTag == <<"[", "%", "e", "v", "a", "l", " ", "0", ".", "3", "]">>

\* annotations without a clock marker
UnmarkedComments == {<<>>, EvalTag, ClkOpen \o <<"]">>}

\* well-formed clock tokens: H:MM:SS.s, MM:SS.s and bare seconds
GoodTokens ==
    {ClockString(0, 29, 6, 0), ClockString(-1, 29, 5, 9),
     <<"1", "7", "9", "0">>}

\* clock tokens with a field int() or float() rejects
BadTokens ==
    {<<"0", ":", "x", "9", ":", "0", "6", ".", "0">>,
     <<"1", ":", "2", ":", "3", ":", "4">>}

Comments ==
    UnmarkedComments
    \cup {ClkTag(t) : t \in GoodTokens \cup BadTokens}
    \cup {EvalTag \o <<" ">> \o ClkTag(ClockString(0, 29, 6, 0))}

\* the TimeControl header: <<>> when absent, else <<its text>>
Headers == {<<>>, <<<<"1", "7", "5", "0">>>>, <<<<"6", "0", "0", "+", "5">>>>}

Sides == {"W", "B"}

Other(side) == IF side = "W" THEN "B" ELSE "W"

\* process_game lines 41-44: the starting allotment
header_time(hdr) ==
    LET text == IF hdr = <<>> THEN <<"1", "8", "0", "0">> ELSE hdr[1]
        parsed == FloatOf(text)
    IN  IF Raised(parsed) THEN 18000 ELSE parsed.val

---------------------------------------------------------------------------
(* Move-time extractor: process_game *)

ply_time_resets_prev(side, clock, wprev, bprev) ==
    IF clock.some THEN
        IF side = "W"
        THEN [time_used |-> wprev - clock.val, white_prev |-> clock.val,
              black_prev |-> bprev]
        ELSE [time_used |-> bprev - clock.val, white_prev |-> wprev,
              black_prev |-> clock.val]
    ELSE [time_used |-> 0,
          white_prev |-> IF side = "W" THEN 0 ELSE wprev,
          black_prev |-> IF side = "B" THEN 0 ELSE bprev]

ply_time_shared_prev(side, clock, wprev, bprev) ==
    IF clock.some THEN
        [time_used |-> wprev - clock.val, white_prev |-> clock.val,
         black_prev |-> clock.val]
    ELSE [time_used |-> 0, white_prev |-> wprev, black_prev |-> bprev]

\* lines 66-74: the time used on a ply and the clock state after it
ply_time(side, clock, wprev, bprev) ==
    IF clock.some THEN
        IF side = "W"
        THEN [time_used |-> wprev - clock.val, white_prev |-> clock.val,
              black_prev |-> bprev]
        ELSE [time_used |-> bprev - clock.val, white_prev |-> wprev,
              black_prev |-> clock.val]
    ELSE [time_used |-> 0, white_prev |-> wprev, black_prev |-> bprev]

\* lines 53-79: one pass of the walk along the mainline, over a ply whose
\* annotation is comment.  parse_time_str raising ends the program.
ProcessPly(comment) ==
    /\ pc = "walk"
    /\ Len(moves_info) < MaxPlies
    /\ LET match == clock_pattern_search(comment)
           parsed == IF match # <<>> THEN parse_time_str(match[1])
                     ELSE Value(0)
       IN  IF match # <<>> /\ Raised(parsed) THEN
               /\ pc' = "raised"
               /\ clock_time_str' = match[1]
               /\ UNCHANGED <<initial_time, turn, white_prev, black_prev,
                              moves_info, readings, clock_seconds, i,
                              move_number, output_lines, report, mmss>>
           ELSE
               LET clock == IF match # <<>> THEN Some(parsed.val) ELSE None
                   side == turn
                   san_move == Len(moves_info) + 1
                   t == ply_time(side, clock, white_prev, black_prev)
               IN  /\ clock_time_str' = IF match # <<>> THEN match[1] ELSE <<>>
                   /\ clock_seconds' = clock
                   /\ readings' = Append(readings, clock)
                   /\ white_prev' = t.white_prev
                   /\ black_prev' = t.black_prev
                   /\ moves_info' =
                        Append(moves_info,
                               [side |-> side, move |-> san_move,
                                time_used |-> t.time_used])
                   /\ turn' = Other(turn)
                   /\ UNCHANGED <<pc, initial_time, i, move_number,
                                  output_lines, report, mmss>>

\* line 53 false, lines 82-84: the mainline has no further ply
EndOfMainline ==
    /\ pc = "walk"
    /\ pc' = "group"
    /\ output_lines' = <<>>
    /\ move_number' = 1
    /\ i' = 0
    /\ UNCHANGED <<initial_time, turn, white_prev, black_prev, moves_info,
                   readings, clock_time_str, clock_seconds, report, mmss>>

\* f"{move} ({time_used:.1f}s)": what a line shows of a record
Rendered(m) == [move |-> m.move, time_used |-> m.time_used]

group_iter_always_advances(moves, k) ==
    LET white_move ==
            IF k < Len(moves) /\ moves[k + 1].side = "W"
            THEN <<moves[k + 1]>> ELSE <<>>
        k1 == k + Len(white_move)
        black_move ==
            IF k1 < Len(moves) /\ moves[k1 + 1].side = "B"
            THEN <<moves[k1 + 1]>> ELSE <<>>
    IN  [white_move |-> white_move, black_move |-> black_move, i |-> k1 + 1]

\* lines 86-93: the records one pass of the grouping loop takes
group_iter(moves, k) ==
    LET white_move ==
            IF k < Len(moves) /\ moves[k + 1].side = "W"
            THEN <<moves[k + 1]>> ELSE <<>>
        k1 == k + Len(white_move)
        black_move ==
            IF k1 < Len(moves) /\ moves[k1 + 1].side = "B"
            THEN <<moves[k1 + 1]>> ELSE <<>>
        k2 == k1 + Len(black_move)
    IN  [white_move |-> white_move, black_move |-> black_move, i |-> k2]

\* lines 85-100: one pass of the grouping loop
GroupLine ==
    /\ pc = "group"
    /\ i < Len(moves_info)
    /\ LET g == group_iter(moves_info, i)
           line == [move_number |-> move_number,
                    entries |-> [k \in 1..Len(g.white_move \o g.black_move) |->
                                    Rendered((g.white_move \o g.black_move)[k])]]
       IN  /\ output_lines' = Append(output_lines, line)
           /\ i' = g.i
           /\ move_number' = move_number + 1
    /\ UNCHANGED <<pc, initial_time, turn, white_prev, black_prev, moves_info,
                   readings, clock_time_str, clock_seconds, report, mmss>>

\* line 85 false, line 102: process_game returns
ReturnLines ==
    /\ pc = "group"
    /\ ~(i < Len(moves_info))
    /\ pc' = "report"
    /\ UNCHANGED <<initial_time, turn, white_prev, black_prev, moves_info,
                   readings, clock_time_str, clock_seconds, i, move_number,
                   output_lines, report, mmss>>

---------------------------------------------------------------------------
(* main: statistics, segment comments and tables of both sides *)

IsWhite(m) == m.side = "W"

IsBlack(m) == m.side = "B"

white_moves_of(moves) == SelectSeq(moves, IsWhite)

black_moves_of(moves) == SelectSeq(moves, IsBlack)

NoReport == [exc |-> "none"]

\* the baseline main hands to analyze_segments: 45.0 seconds
SegmentBaseline == 450

\* lines 301-319 and 387-398; an exception raised on the way ends the program
Report ==
    /\ pc = "report"
    /\ LET white_moves == white_moves_of(moves_info)
           black_moves == black_moves_of(moves_info)
           stats_white == compute_stats(white_moves, initial_time)
           stats_black == compute_stats(black_moves, initial_time)
           seg_white == analyze_segments(white_moves, RInt(SegmentBaseline))
           seg_black == analyze_segments(black_moves, RInt(SegmentBaseline))
       IN  IF Raised(stats_white) \/ Raised(stats_black)
              \/ Raised(seg_white) \/ Raised(seg_black)
           THEN /\ pc' = "raised"
                /\ report' = [exc |-> "raised",
                              stats_white |-> stats_white,
                              stats_black |-> stats_black,
                              segments_white |-> seg_white,
                              segments_black |-> seg_black]
           ELSE /\ pc' = "done"
                /\ report' =
                    [exc |-> "",
                     stats_white |-> stats_white,
                     stats_black |-> stats_black,
                     segments_white |-> seg_white,
                     segments_black |-> seg_black,
                     eff_comment_white |->
                        efficiency_comment(stats_white.efficiency_ratio),
                     eff_comment_black |->
                        efficiency_comment(stats_black.efficiency_ratio),
                     white_detail_table |->
                        detailed_move_stats_table(white_moves,
                            stats_white.avg_time, stats_white.recommended_avg,
                            initial_time),
                     black_detail_table |->
                        detailed_move_stats_table(black_moves,
                            stats_black.avg_time, stats_black.recommended_avg,
                            initial_time)]
    /\ UNCHANGED <<initial_time, turn, white_prev, black_prev, moves_info,
                   readings, clock_time_str, clock_seconds, i, move_number,
                   output_lines, mmss>>

---------------------------------------------------------------------------
(* The program on one game *)

Init ==
    /\ pc = "walk"
    /\ \E hdr \in Headers : initial_time = header_time(hdr)
    /\ turn \in Sides
    /\ white_prev = initial_time
    /\ black_prev = initial_time
    /\ moves_info = <<>>
    /\ readings = <<>>
    /\ clock_time_str = <<>>
    /\ clock_seconds = None
    /\ i = 0
    /\ move_number = 1
    /\ output_lines = <<>>
    /\ report = NoReport
    /\ mmss = <<>>

Next ==
    \/ \E comment \in Comments : ProcessPly(comment)
    \/ EndOfMainline
    \/ GroupLine
    \/ ReturnLines
    \/ Report

Spec == Init /\ [][Next]_vars

\* the program is sequential: a loop that can make a pass makes it
LiveSpec == Spec /\ WF_vars(GroupLine) /\ WF_vars(ReturnLines)

---------------------------------------------------------------------------
(* The statistics functions on arbitrary move sequences *)

StatTimes == {-8, 0, 7, 8, 12, 13}

StatInitialTimes == {0, 400}

MoveSequences ==
    UNION {{[k \in 1..n |-> [side |-> f[k][1], move |-> k, time_used |-> f[k][2]]] :
                f \in [1..n -> Sides \X StatTimes]} : n \in 0..MaxMoves}

InitStats ==
    /\ pc = "report"
    /\ initial_time \in StatInitialTimes
    /\ moves_info \in MoveSequences
    /\ turn = "W"
    /\ white_prev = initial_time
    /\ black_prev = initial_time
    /\ readings = <<>>
    /\ clock_time_str = <<>>
    /\ clock_seconds = None
    /\ i = 0
    /\ move_number = 1
    /\ output_lines = <<>>
    /\ report = NoReport
    /\ mmss = <<>>

NextStats == Report

SpecStats == InitStats /\ [][NextStats]_vars

---------------------------------------------------------------------------
(* The clock-string functions on the valid clock strings *)

ParseClock ==
    /\ pc = "clock"
    /\ LET parsed == parse_time_str(clock_time_str)
       IN  IF Raised(parsed)
           THEN pc' = "raised" /\ UNCHANGED clock_seconds
           ELSE pc' = "parsed" /\ clock_seconds' = Some(parsed.val)
    /\ UNCHANGED <<initial_time, turn, white_prev, black_prev, moves_info,
                   readings, clock_time_str, i, move_number, output_lines,
                   report, mmss>>

FormatClock ==
    /\ pc = "parsed"
    /\ mmss' = format_mmss(clock_seconds.val)
    /\ pc' = "formatted"
    /\ UNCHANGED <<initial_time, turn, white_prev, black_prev, moves_info,
                   readings, clock_time_str, clock_seconds, i, move_number,
                   output_lines, report>>

InitClock ==
    /\ pc = "clock"
    /\ clock_time_str \in ValidClockStrings
    /\ initial_time = header_time(<<>>)
    /\ turn = "W"
    /\ white_prev = initial_time
    /\ black_prev = initial_time
    /\ moves_info = <<>>
    /\ readings = <<>>
    /\ clock_seconds = None
    /\ i = 0
    /\ move_number = 1
    /\ output_lines = <<>>
    /\ report = NoReport
    /\ mmss = <<>>

NextClock == ParseClock \/ FormatClock

SpecClock == InitClock /\ [][NextClock]_vars

---------------------------------------------------------------------------
(* Vocabulary of the properties *)

\* the plies walked so far that side played
PliesOf(side) == {k \in 1..Len(moves_info) : moves_info[k].side = side}

MovesOf(side) == IF side = "W" THEN white_moves_of(moves_info)
                 ELSE black_moves_of(moves_info)

PrevOf(side) == IF side = "W" THEN white_prev ELSE black_prev

Max(S) == CHOOSE x \in S : \A y \in S : y <= x

\* the last clock reading observed for side among the plies 1..k, or
\* initial_time if none was observed
LastObserved(side, k) ==
    LET seen == {j \in PliesOf(side) : j <= k /\ readings[j].some}
    IN  IF seen = {} THEN initial_time ELSE readings[Max(seen)].val

\* the index in moves_info of the n-th ply of side
RECURSIVE NthPlyFrom(_, _, _)
NthPlyFrom(side, n, k) ==
    IF moves_info[k].side = side
    THEN IF n = 1 THEN k ELSE NthPlyFrom(side, n - 1, k + 1)
    ELSE NthPlyFrom(side, n, k + 1)

NthPly(side, n) == NthPlyFrom(side, n, 1)

StatsOf(side) == IF side = "W" THEN report.stats_white ELSE report.stats_black

SegmentsOf(side) ==
    IF side = "W" THEN report.segments_white ELSE report.segments_black

TableOf(side) ==
    IF side = "W" THEN report.white_detail_table
    ELSE report.black_detail_table

Reported == pc \in {"done", "raised"} /\ report # NoReport

---------------------------------------------------------------------------
(* C1 *)

\* C1. Time conservation: whenever every ply a side has played carries a
\* clock reading, the times used by that side sum to initial_time minus the
\* side's final clock reading.
C1_TimeConservation ==
    \A side \in Sides :
        (PliesOf(side) # {} /\ \A k \in PliesOf(side) : readings[k].some)
        => SumTimes(MovesOf(side))
             = initial_time - readings[Max(PliesOf(side))].val

\* a finished game in which both sides moved twice, every ply with a reading,
\* and White's two readings differ
C1_Witness ==
    /\ pc = "done"
    /\ \A side \in Sides : Cardinality(PliesOf(side)) >= 2
    /\ \A k \in 1..Len(readings) : readings[k].some
    /\ \E j, k \in PliesOf("W") : readings[j].val # readings[k].val

---------------------------------------------------------------------------
(* C2 *)

\* C2. A malformed clock marker is handled like an absent one: the run is
\* not aborted, the ply gets time_used = 0, a MoveRecord is appended and the
\* clocks stay as they were.
C2_MalformedLikeAbsent ==
    (clock_time_str # <<>> /\ Raised(parse_time_str(clock_time_str)))
    => /\ pc # "raised"
       /\ moves_info # <<>>
       /\ moves_info[Len(moves_info)].time_used = 0
       /\ ~readings[Len(readings)].some

---------------------------------------------------------------------------
(* C3 *)

\* C3. Missing-marker fallback: a ply without a clock marker gets
\* time_used = 0 and leaves white_prev and black_prev as they were; a ply
\* with a reading r gets the last reading observed for its side (initial_time
\* if there is none) minus r.
C3_MissingMarkerFallback ==
    [][Len(moves_info') = Len(moves_info) + 1 =>
        LET k == Len(moves_info')
            m == moves_info'[k]
            r == readings'[k]
        IN  /\ ~r.some =>
                /\ m.time_used = 0
                /\ white_prev' = white_prev
                /\ black_prev' = black_prev
            /\ r.some =>
                m.time_used = LastObserved(m.side, Len(moves_info)) - r.val
    ]_vars

\* a side read its clock, then played a ply without a marker, then read its
\* clock again
C3_Witness ==
    \E a, b, c \in PliesOf("W") :
        /\ a < b /\ b < c
        /\ readings[a].some /\ ~readings[b].some /\ readings[c].some
        /\ readings[a].val # readings[c].val

---------------------------------------------------------------------------
(* C4 *)

AllZero(st) ==
    /\ st.count = 0
    /\ \A x \in {st.total_time, st.avg_time, st.std_dev, st.consistency,
                 st.recommended_avg, st.efficiency_ratio} : x = Zero

\* C4. Degenerate-input safety of compute_stats: on an empty sequence every
\* field is zero; on every sequence and every initial_time nothing is raised,
\* consistency is 0 whenever avg_time is 0 and efficiency_ratio is 0
\* whenever recommended_avg is 0.
C4_DegenerateSafety ==
    Reported =>
        \A side \in Sides :
            LET st == StatsOf(side)
            IN  /\ ~Raised(st)
                /\ MovesOf(side) = <<>> => AllZero(st)
                /\ RIsZero(st.avg_time) => st.consistency = Zero
                /\ RIsZero(st.recommended_avg) => st.efficiency_ratio = Zero

\* White's times are not all zero yet sum to 0, initial_time is 0, and Black
\* has no move
C4_Witness ==
    /\ Reported
    /\ initial_time = 0
    /\ MovesOf("B") = <<>>
    /\ MovesOf("W") # <<>>
    /\ SumTimes(MovesOf("W")) = 0
    /\ \E k \in PliesOf("W") : moves_info[k].time_used # 0
    /\ ~Raised(report.stats_white)
    /\ ~RIsZero(report.stats_white.std_dev)

---------------------------------------------------------------------------
(* C5 *)

\* C5 as stated: every summary carries recommended_avg = initial_time / 40,
\* so the two summaries of a game agree, also when a side has no moves.
C5_AlwaysInitialOver40 ==
    pc = "done" =>
        /\ \A side \in Sides :
              StatsOf(side).recommended_avg = Q(initial_time, 40)
        /\ report.stats_white.recommended_avg
             = report.stats_black.recommended_avg

\* C5, amended. The summary of a side that moved carries recommended_avg =
\* initial_time / 40, the summary of a side without moves carries 0; the
\* two summaries of a game agree when both sides moved.
C5_RecommendedAvg ==
    pc = "done" =>
        /\ \A side \in Sides :
              StatsOf(side).recommended_avg =
                  IF MovesOf(side) # <<>> THEN Q(initial_time, 40) ELSE Zero
        /\ (MovesOf("W") # <<>> /\ MovesOf("B") # <<>>)
              => report.stats_white.recommended_avg
                   = report.stats_black.recommended_avg

\* a finished game in which both sides moved, White more often than Black
C5_Witness ==
    /\ pc = "done"
    /\ MovesOf("B") # <<>>
    /\ Len(MovesOf("W")) > Len(MovesOf("B"))
    /\ report.stats_white.recommended_avg = Q(initial_time, 40)

---------------------------------------------------------------------------
(* C6 *)

\* the remark the claim gives a move of time t against the recommendation r
ClaimedRemark(t, r) ==
    IF RLt(RInt(t), RMul(r, Q(8, 10))) THEN "fast"
    ELSE IF RLt(RMul(r, Q(12, 10)), RInt(t)) THEN "slow"
    ELSE "optimal"

RowsOf(side) == 1..NumRows(TableOf(side))

\* C6 as stated: for every time_used t and every recommended_avg r the
\* remark is "fast" iff t < r*0.8, "slow" iff t > r*1.2, "optimal" otherwise.
C6_RemarkAnyRecommendation ==
    pc = "done" =>
        \A side \in Sides : \A k \in RowsOf(side) :
            Row(TableOf(side), k).remark =
                ClaimedRemark(Row(TableOf(side), k).time_used,
                              StatsOf(side).recommended_avg)

\* C6, amended. For every recommended_avg r > 0 the remark is "fast" iff
\* t < r*0.8, "slow" iff t > r*1.2 and "optimal" otherwise, both boundaries
\* exclusive; when r = 0 every remark is "optimal".
C6_Remark ==
    pc = "done" =>
        \A side \in Sides : \A k \in RowsOf(side) :
            LET row == Row(TableOf(side), k)
                r == StatsOf(side).recommended_avg
            IN  /\ RLt(Zero, r) => row.remark = ClaimedRemark(row.time_used, r)
                /\ RIsZero(r) => row.remark = "optimal"

\* White's table holds a move exactly on the upper boundary, one exactly on
\* the lower boundary and one just above the upper boundary
C6_Witness ==
    /\ pc = "done"
    /\ RLt(Zero, report.stats_white.recommended_avg)
    /\ \E a, b, c \in RowsOf("W") :
        LET r == report.stats_white.recommended_avg
            ra == Row(report.white_detail_table, a)
            rb == Row(report.white_detail_table, b)
            rc == Row(report.white_detail_table, c)
        IN  /\ RInt(ra.time_used) = RMul(r, Q(12, 10)) /\ ra.remark = "optimal"
            /\ RInt(rb.time_used) = RMul(r, Q(8, 10)) /\ rb.remark = "optimal"
            /\ rc.time_used = ra.time_used + 1 /\ rc.remark = "slow"

---------------------------------------------------------------------------
(* C7 *)

SecondsField(s) ==
    LET parts == Split(s, ":")
    IN  Split(parts[Len(parts)], ".")[1]

\* C7 as stated: for every valid clock string, hours >= 1 included,
\* format_mmss(parse_time_str(s)) is the minute:second portion of s with the
\* fraction cut off.
C7_RoundTripAnyHours ==
    pc = "formatted" => mmss = MinSecPortion(clock_time_str)

\* C7, amended. For every valid clock string whose hours field is absent or
\* 0, format_mmss(parse_time_str(s)) is the minute:second portion of s with
\* the fraction cut off; with hours H the minutes shown are H*60 + MM.
C7_RoundTrip ==
    pc = "formatted" =>
        /\ HoursField(clock_time_str) = 0
              => mmss = MinSecPortion(clock_time_str)
        /\ mmss = Fmt02d(HoursField(clock_time_str) * 60
                           + MinutesField(clock_time_str))
                  \o <<":">> \o SecondsField(clock_time_str)

\* a string 0:MM:SS.9 has been parsed and formatted
C7_Witness ==
    /\ pc = "formatted"
    /\ Len(Split(clock_time_str, ":")) = 3
    /\ HoursField(clock_time_str) = 0
    /\ MinutesField(clock_time_str) > 0
    /\ clock_time_str[Len(clock_time_str)] = "9"
    /\ mmss = MinSecPortion(clock_time_str)

---------------------------------------------------------------------------
(* C8 *)

RECURSIVE Flatten(_)
Flatten(lines) ==
    IF lines = <<>> THEN <<>>
    ELSE lines[1].entries \o Flatten(Tail(lines))

\* the number of records the lines before line j hold
EntriesBefore(j) == Len(Flatten(SubSeq(output_lines, 1, j - 1)))

\* the lines built so far render the records 1..i, each once and in play
\* order; a line holds one record, or a White record followed by a Black
\* one; the lines are numbered 1, 2, 3, ...
GroupedSoFar ==
    /\ i <= Len(moves_info)
    /\ Flatten(output_lines) = [k \in 1..i |-> Rendered(moves_info[k])]
    /\ move_number = Len(output_lines) + 1
    /\ \A j \in 1..Len(output_lines) :
        LET line == output_lines[j]
            first == EntriesBefore(j) + 1
        IN  /\ line.move_number = j
            /\ Len(line.entries) \in {1, 2}
            /\ Len(line.entries) = 2 =>
                /\ moves_info[first].side = "W"
                /\ moves_info[first + 1].side = "B"

\* C8. The grouping loop terminates; every record is rendered exactly once
\* and in play order; a line holds at most one White record followed by at
\* most one Black record and is never empty; the lines are numbered 1, 2,
\* 3, ...; a leading Black-only or trailing White-only record has a line of
\* its own.
C8_CombinedMoveList ==
    /\ [](pc \in {"group", "report", "done"} => GroupedSoFar)
    /\ [](pc \in {"report", "done"} =>
            /\ i = Len(moves_info)
            /\ (moves_info # <<>> /\ moves_info[1].side = "B")
                  => Len(output_lines[1].entries) = 1
            /\ (moves_info # <<>> /\ moves_info[Len(moves_info)].side = "W")
                  => Len(output_lines[Len(output_lines)].entries) = 1)
    /\ ((pc = "group") ~> (pc = "report"))

\* the loop has ended on a game that starts with a Black-only record, ends
\* with a White-only record and holds a full pair in between
C8_Witness ==
    /\ pc = "report"
    /\ Len(moves_info) >= 4
    /\ moves_info[1].side = "B"
    /\ moves_info[Len(moves_info)].side = "W"
    /\ Len(output_lines) = 3
    /\ Len(output_lines[2].entries) = 2

---------------------------------------------------------------------------
(* C9 *)

\* C9. analyze_segments returns the two "Insufficient data" strings exactly
\* when the sequence has fewer than 2 records; a sequence of n >= 2 records
\* is split at floor(n/2) into two non-empty halves whose concatenation is
\* the sequence, the first the smaller when n is odd, and no mean divides by
\* zero.
C9_SegmentSplit ==
    Reported =>
        \A side \in Sides :
            LET moves == MovesOf(side)
                n == Len(moves)
                seg == SegmentsOf(side)
                halves == segment_split(moves)
            IN  /\ ~Raised(seg)
                /\ (seg.early.text = InsufficientEarly
                      /\ seg.later.text = InsufficientLater) <=> n < 2
                /\ (seg.early.text = InsufficientEarly
                      \/ seg.later.text = InsufficientLater) => n < 2
                /\ n >= 2 =>
                    /\ Len(halves.first_half) = n \div 2
                    /\ halves.first_half # <<>>
                    /\ halves.second_half # <<>>
                    /\ halves.first_half \o halves.second_half = moves
                    /\ Len(halves.first_half) <= Len(halves.second_half)
                    /\ n % 2 = 1 =>
                          Len(halves.first_half) < Len(halves.second_half)
                    /\ seg.early.avg = Mean(halves.first_half)
                    /\ seg.later.avg = Mean(halves.second_half)

\* White has three moves, split one and two, and Black none
C9_Witness ==
    /\ Reported
    /\ Len(MovesOf("W")) = 3
    /\ Len(MovesOf("B")) = 0
    /\ ~Raised(report.segments_white)
    /\ report.segments_white.early.avg = RInt(MovesOf("W")[1].time_used)
    /\ report.segments_black.early.text = InsufficientEarly

---------------------------------------------------------------------------
(* C10 *)

\* C10. After any prefix of plies, initial_time minus a side's previous
\* known clock is the sum of the times used by that side so far; so the
\* Remain of row k of the side's table is the side's previous known clock
\* after its k-th ply: its last observed reading, or initial_time if none.
C10_RemainIsPreviousClock ==
    /\ \A side \in Sides :
          initial_time - PrevOf(side) = SumTimes(MovesOf(side))
    /\ pc = "done" =>
          \A side \in Sides : \A k \in RowsOf(side) :
              LET row == Row(TableOf(side), k)
                  prev == LastObserved(side, NthPly(side, k))
              IN  row.remain = prev

\* White's table has a row for a ply without a marker after a ply with a
\* reading, and a later row with a different remainder
C10_Witness ==
    /\ pc = "done"
    /\ \E a, b, c \in RowsOf("W") :
        /\ a < b /\ b < c
        /\ readings[NthPly("W", a)].some
        /\ ~readings[NthPly("W", b)].some
        /\ readings[NthPly("W", c)].some
        /\ Row(report.white_detail_table, b).remain
             = readings[NthPly("W", a)].val
        /\ Row(report.white_detail_table, c).remain
             # Row(report.white_detail_table, b).remain

=============================================================================
